---- MODULE Spec2Model ----
(***************************************************************************)
(* Model of include/media/MediaExtractorPluginHelper.h:                    *)
(*   - wrap(): MediaExtractorPluginHelper -> CMediaExtractor trampolines   *)
(*   - DataSourceHelper: getUInt16/24/32/64 and getUInt16Var/32Var/64Var   *)
(*   - constUUID(): compile-time UUID literal parser                       *)
(*                                                                         *)
(* Machine words are sequences of bytes, most significant byte first, so   *)
(* that 32- and 64-bit unsigned values stay exact.  The target is Android, *)
(* a little-endian host: a word loaded from memory has the memory's bytes  *)
(* in reverse order, and ntohl() is a byte swap.                           *)
(***************************************************************************)
EXTENDS Integers, Sequences, FiniteSets, TLC

VARIABLES
    \* ---- adapter (wrap) ----
    extractor,     \* state of the MediaExtractorPluginHelper object
    implState,     \* "none" | "live" | "deleted"
    dtorCount,     \* number of times ~MediaExtractorPluginHelper has run
    wrapper,       \* the CMediaExtractor struct returned by wrap
    wrapperAlloc,  \* "none" | "live" | "freed": the malloc'ed CMediaExtractor
    freeCalls,     \* number of host invocations of wrapper->free
    lastCall,      \* record of the last host call through a slot
    crashed,       \* the process died on undefined behaviour
    \* ---- DataSourceHelper ----
    source,        \* the CDataSource behind mSource: bytes and error mode
    rd,            \* record of the last convenience-reader call
    \* ---- constUUID ----
    str,           \* the string literal handed to UUID(str), without its NUL
    edits,         \* number of edits applied to the literal
    uuid           \* outcome of building UUID(str)

vars == <<extractor, implState, dtorCount, wrapper, wrapperAlloc, freeCalls,
          lastCall, crashed, source, rd, str, edits, uuid>>

adapterVars == <<extractor, implState, dtorCount, wrapper, wrapperAlloc,
                 freeCalls, lastCall, crashed>>
readerVars == <<source, rd>>
uuidVars == <<str, edits, uuid>>

----------------------------------------------------------------------------
\* Bounds
MaxTracks == 2
MaxIndex == 2
MaxCasSize == 1
MaxFreeCalls == 2

----------------------------------------------------------------------------
\* Bit operations on naturals below 2^8 (enum Flags, single bytes)

RECURSIVE BitOr(_, _)
BitOr(a, b) ==
    IF a = 0 THEN b
    ELSE IF b = 0 THEN a
    ELSE (IF (a % 2 = 1) \/ (b % 2 = 1) THEN 1 ELSE 0) + 2 * BitOr(a \div 2, b \div 2)

----------------------------------------------------------------------------
\* MediaExtractorPluginHelper

CAN_SEEK_BACKWARD == 1
CAN_SEEK_FORWARD == 2
CAN_PAUSE == 4
CAN_SEEK == 8

\* Two concrete subclasses: "Minimal" overrides only the pure virtual
\* methods, "Full" also overrides flags, setMediaCas and name.
ImplClasses == {"Minimal", "Full"}

Extractors == [cls : ImplClasses, nTracks : 0..MaxTracks, cas : {-1} \cup (1..MaxCasSize)]

NoExtractor == [cls |-> "none", nTracks |-> 0, cas |-> -1]

\* Argument tuples of the capability slots
NoArgs == [index |-> 0, flags |-> 0, size |-> 0]
ArgsOf(slot) ==
    CASE slot = "getTrack" -> {[index |-> i, flags |-> 0, size |-> 0] : i \in 0..MaxIndex}
      [] slot = "getTrackMetaData" ->
            {[index |-> i, flags |-> f, size |-> 0] : i \in 0..MaxIndex, f \in {0, 1}}
      [] slot = "setMediaCas" -> {[index |-> 0, flags |-> 0, size |-> s] : s \in 0..MaxCasSize}
      [] OTHER -> {NoArgs}

\* Result of a method: the value returned, what was written through the
\* MetaDataBase& parameter, and the object's state afterwards.
Result(ret, meta, obj) == [ret |-> ret, meta |-> meta, obj |-> obj]

\* virtual size_t countTracks() = 0;
countTracks(obj, args) == Result(obj.nTracks, <<"untouched">>, obj)

\* virtual MediaTrack *getTrack(size_t index) = 0;
getTrack(obj, args) ==
    Result(IF args.index < obj.nTracks THEN args.index + 1 ELSE 0, <<"untouched">>, obj)

\* virtual status_t getTrackMetaData(MetaDataBase& meta, size_t index, uint32_t flags) = 0;
getTrackMetaData(obj, args) ==
    IF args.index < obj.nTracks
    THEN Result("OK", <<"track", args.index, args.flags>>, obj)
    ELSE Result("UNKNOWN_ERROR", <<"untouched">>, obj)

\* virtual status_t getMetaData(MetaDataBase& meta) = 0;
getMetaData(obj, args) ==
    IF obj.nTracks > 0
    THEN Result("OK", <<"container", obj.nTracks>>, obj)
    ELSE Result("ERROR_MALFORMED", <<"untouched">>, obj)

\* virtual uint32_t flags() const: the default and a subclass override
flags(obj, args) ==
    IF obj.cls = "Full"
    THEN Result(CAN_PAUSE, <<"untouched">>, obj)
    ELSE Result(BitOr(BitOr(BitOr(CAN_SEEK_BACKWARD, CAN_SEEK_FORWARD), CAN_SEEK), CAN_PAUSE),
                <<"untouched">>, obj)

\* virtual status_t setMediaCas(const uint8_t*, size_t): default and override
setMediaCas(obj, args) ==
    IF obj.cls = "Full"
    THEN IF args.size = 0 THEN Result("BAD_VALUE", <<"untouched">>, obj)
         ELSE IF obj.cas # -1 THEN Result("ALREADY_EXISTS", <<"untouched">>, obj)
         ELSE Result("OK", <<"untouched">>, [obj EXCEPT !.cas = args.size])
    ELSE Result("INVALID_OPERATION", <<"untouched">>, obj)

\* virtual const char * name(): default and override
name(obj, args) ==
    IF obj.cls = "Full"
    THEN Result("FullExtractor", <<"untouched">>, obj)
    ELSE Result("<unspecified>", <<"untouched">>, obj)

\* Calling method m of the Implementation directly
Method(m, obj, args) ==
    CASE m = "countTracks" -> countTracks(obj, args)
      [] m = "getTrack" -> getTrack(obj, args)
      [] m = "getTrackMetaData" -> getTrackMetaData(obj, args)
      [] m = "getMetaData" -> getMetaData(obj, args)
      [] m = "flags" -> flags(obj, args)
      [] m = "setMediaCas" -> setMediaCas(obj, args)
      [] m = "name" -> name(obj, args)

----------------------------------------------------------------------------
\* wrap(): the CMediaExtractor and its lambdas

Slots == {"countTracks", "getTrack", "getTrackMetaData", "getMetaData",
          "flags", "setMediaCas", "name"}

ExtractorPtr == "extractor"

NoWrapper == [data |-> "null", free |-> "null", countTracks |-> "null",
              getTrack |-> "null", getTrackMetaData |-> "null",
              getMetaData |-> "null", flags |-> "null", setMediaCas |-> "null",
              name |-> "null"]

wrap_swapped(ptr) ==
    [data |-> ptr,
     free |-> "lambda_free",
     countTracks |-> "lambda_countTracks",
     getTrack |-> "lambda_getTrack",
     getTrackMetaData |-> "lambda_getTrackMetaData",
     getMetaData |-> "lambda_getMetaData",
     flags |-> "lambda_flags",
     setMediaCas |-> "lambda_name",
     name |-> "lambda_setMediaCas"]

\* The struct wrap() fills in: every slot holds its captureless lambda.
wrap(ptr) ==
    [data |-> ptr,
     free |-> "lambda_free",
     countTracks |-> "lambda_countTracks",
     getTrack |-> "lambda_getTrack",
     getTrackMetaData |-> "lambda_getTrackMetaData",
     getMetaData |-> "lambda_getMetaData",
     flags |-> "lambda_flags",
     setMediaCas |-> "lambda_setMediaCas",
     name |-> "lambda_name"]

\* Body of a forwarding lambda: cast data back and make the virtual call.
\* obj is the object data points to.
Lambda(fn, obj, args) ==
    CASE fn = "lambda_countTracks" -> countTracks(obj, args)
      [] fn = "lambda_getTrack" -> getTrack(obj, args)
      [] fn = "lambda_getTrackMetaData" -> getTrackMetaData(obj, args)
      [] fn = "lambda_getMetaData" -> getMetaData(obj, args)
      [] fn = "lambda_flags" -> flags(obj, args)
      [] fn = "lambda_setMediaCas" -> setMediaCas(obj, args)
      [] fn = "lambda_name" -> name(obj, args)

NoCall == [slot |-> "none", args |-> NoArgs, ret |-> "none", meta |-> <<"untouched">>,
           before |-> NoExtractor, defined |-> TRUE]

\* What the free lambda releases: delete (MediaExtractorPluginHelper*)data.
\* The CMediaExtractor struct is not reachable from the lambda.
FreeLambda_noDelete == [impl |-> FALSE, wrapper |-> FALSE]
FreeLambda_alsoWrapper == [impl |-> TRUE, wrapper |-> TRUE]
FreeLambda == [impl |-> TRUE, wrapper |-> FALSE]


\* A plugin factory constructs an extractor and returns wrap(extractor).
Wrap ==
    /\ implState = "none"
    /\ ~crashed
    /\ \E e \in Extractors :
          /\ e.cas = -1
          /\ extractor' = e
    /\ implState' = "live"
    /\ wrapper' = wrap(ExtractorPtr)
    /\ wrapperAlloc' = "live"
    /\ UNCHANGED <<dtorCount, freeCalls, lastCall, crashed>>
    /\ UNCHANGED <<readerVars, uuidVars>>

\* The host calls wrapper->slot(wrapper->data, args...) on a live extractor.
HostCall ==
    /\ wrapperAlloc = "live"
    /\ implState = "live"
    /\ ~crashed
    /\ \E slot \in Slots : \E args \in ArgsOf(slot) :
          LET r == Lambda(wrapper[slot], extractor, args) IN
          /\ extractor' = r.obj
          /\ lastCall' = [slot |-> slot, args |-> args, ret |-> r.ret, meta |-> r.meta,
                          before |-> extractor, defined |-> TRUE]
    /\ UNCHANGED <<implState, dtorCount, wrapper, wrapperAlloc, freeCalls, crashed>>
    /\ UNCHANGED <<readerVars, uuidVars>>

\* The host calls a slot after free: a call through a dangling pointer.
\* The call may crash or return anything.
HostCallAfterFree ==
    /\ wrapperAlloc = "live"
    /\ implState = "deleted"
    /\ ~crashed
    /\ \E slot \in Slots : \E args \in ArgsOf(slot) :
          \/ /\ crashed' = TRUE
             /\ UNCHANGED lastCall
          \/ /\ lastCall' = [slot |-> slot, args |-> args, ret |-> "garbage",
                             meta |-> <<"garbage">>, before |-> extractor, defined |-> FALSE]
             /\ UNCHANGED crashed
    /\ UNCHANGED <<extractor, implState, dtorCount, wrapper, wrapperAlloc, freeCalls>>
    /\ UNCHANGED <<readerVars, uuidVars>>

\* The host calls wrapper->free(wrapper->data) the first time.
HostFree ==
    /\ wrapperAlloc = "live"
    /\ implState = "live"
    /\ ~crashed
    /\ wrapper.free = "lambda_free"
    /\ freeCalls < MaxFreeCalls
    /\ freeCalls' = freeCalls + 1
    /\ IF FreeLambda.impl
       THEN implState' = "deleted" /\ dtorCount' = dtorCount + 1
       ELSE UNCHANGED <<implState, dtorCount>>
    /\ wrapperAlloc' = IF FreeLambda.wrapper THEN "freed" ELSE wrapperAlloc
    /\ UNCHANGED <<extractor, wrapper, lastCall, crashed>>
    /\ UNCHANGED <<readerVars, uuidVars>>

\* The host calls wrapper->free again: delete of an already deleted object.
\* The destructor runs a second time, or the allocator aborts.
HostFreeAgain ==
    /\ wrapperAlloc = "live"
    /\ implState = "deleted"
    /\ ~crashed
    /\ freeCalls < MaxFreeCalls
    /\ freeCalls' = freeCalls + 1
    /\ \/ dtorCount' = dtorCount + 1 /\ UNCHANGED crashed
       \/ crashed' = TRUE /\ UNCHANGED dtorCount
    /\ UNCHANGED <<extractor, implState, wrapper, wrapperAlloc, lastCall>>
    /\ UNCHANGED <<readerVars, uuidVars>>

AdapterNext ==
    \/ Wrap
    \/ HostCall
    \/ HostCallAfterFree
    \/ HostFree
    \/ HostFreeAgain

----------------------------------------------------------------------------
\* Machine words: sequences of bytes, most significant byte first

MaxSrcLen == 8
MaxOffset == 1
MaxSize == 8

ByteVals == {1, 254}

RECURSIVE BitAnd(_, _)
BitAnd(a, b) ==
    IF a = 0 \/ b = 0 THEN 0
    ELSE (IF (a % 2 = 1) /\ (b % 2 = 1) THEN 1 ELSE 0) + 2 * BitAnd(a \div 2, b \div 2)

Zero(n) == [i \in 1..n |-> 0]
Garbage(n) == [i \in 1..n |-> 170]
Reverse(w) == [i \in 1..Len(w) |-> w[Len(w) + 1 - i]]

\* Integer conversion to an unsigned type of n bytes
Conv(w, n) ==
    IF Len(w) >= n THEN SubSeq(w, Len(w) - n + 1, Len(w))
    ELSE Zero(n - Len(w)) \o w

\* w << 8k and w >> 8k in the width of w
Shl(w, k) == SubSeq(w, k + 1, Len(w)) \o Zero(k)
Shr(w, k) == Zero(k) \o SubSeq(w, 1, Len(w) - k)

WordOr(a, b) == [i \in 1..Len(a) |-> BitOr(a[i], b[i])]
WordAnd(a, b) == [i \in 1..Len(a) |-> BitAnd(a[i], b[i])]

\* A uint8_t promoted to int
Promote(b) == Conv(<<b>>, 4)

\* The value of an integer object whose storage holds the bytes mem
\* (little-endian host)
Load(mem) == Reverse(mem)

\* ntohl on a little-endian host: swap the four bytes
ntohl(w) == Reverse(w)

\* Numeric value of a word of at most three bytes
RECURSIVE Val(_)
Val(w) == IF Len(w) = 0 THEN 0 ELSE 256 * Val(SubSeq(w, 1, Len(w) - 1)) + w[Len(w)]

----------------------------------------------------------------------------
\* DataSourceHelper

Sources == [bytes : Seq(ByteVals), err : BOOLEAN]

Min(a, b) == IF a < b THEN a ELSE b

\* mSource->readAt(mSource->handle, offset, data, size): the number of bytes
\* delivered (or a negative error) and the bytes written to data
readAt(src, offset, size) ==
    IF src.err THEN [n |-> -1, data |-> <<>>]
    ELSE IF offset >= Len(src.bytes) THEN [n |-> 0, data |-> <<>>]
    ELSE LET k == Min(size, Len(src.bytes) - offset) IN
         [n |-> k, data |-> SubSeq(src.bytes, offset + 1, offset + k)]

\* Outcome of a reader: the boolean returned, *x afterwards, and the
\* readAt requests issued
Got(ok, x, reads) == [ok |-> ok, x |-> x, reads |-> reads]

getUInt16_noZero(src, offset, x0) ==
    LET r == readAt(src, offset, 2) IN
    IF r.n # 2 THEN Got(FALSE, x0, <<<<offset, 2>>>>)
    ELSE Got(TRUE, Conv(WordOr(Shl(Promote(r.data[1]), 1), Promote(r.data[2])), 2),
             <<<<offset, 2>>>>)

getUInt16(src, offset, x0) ==
    LET r == readAt(src, offset, 2) IN
    IF r.n # 2 THEN Got(FALSE, Zero(2), <<<<offset, 2>>>>)
    ELSE Got(TRUE, Conv(WordOr(Shl(Promote(r.data[1]), 1), Promote(r.data[2])), 2),
             <<<<offset, 2>>>>)

getUInt24(src, offset, x0) ==
    LET r == readAt(src, offset, 3) IN
    IF r.n # 3 THEN Got(FALSE, Zero(4), <<<<offset, 3>>>>)
    ELSE Got(TRUE,
             Conv(WordOr(WordOr(Shl(Promote(r.data[1]), 2), Shl(Promote(r.data[2]), 1)),
                         Promote(r.data[3])), 4),
             <<<<offset, 3>>>>)

getUInt32_noSwap(src, offset, x0) ==
    LET r == readAt(src, offset, 4) IN
    IF r.n # 4 THEN Got(FALSE, Zero(4), <<<<offset, 4>>>>)
    ELSE Got(TRUE, Load(r.data), <<<<offset, 4>>>>)

getUInt32(src, offset, x0) ==
    LET r == readAt(src, offset, 4) IN
    IF r.n # 4 THEN Got(FALSE, Zero(4), <<<<offset, 4>>>>)
    ELSE Got(TRUE, ntohl(Load(r.data)), <<<<offset, 4>>>>)

Mask32 == <<0, 0, 0, 0, 255, 255, 255, 255>>

getUInt64(src, offset, x0) ==
    LET r == readAt(src, offset, 8) IN
    IF r.n # 8 THEN Got(FALSE, Zero(8), <<<<offset, 8>>>>)
    ELSE LET tmp == Load(r.data) IN
         Got(TRUE,
             WordOr(Shl(Conv(ntohl(Conv(WordAnd(tmp, Mask32), 4)), 8), 4),
                    Conv(ntohl(Conv(Shr(tmp, 4), 4)), 8)),
             <<<<offset, 8>>>>)

getUInt16Var(src, offset, x0, size) ==
    IF size = 2 THEN getUInt16(src, offset, x0)
    ELSE IF size = 1
    THEN LET r == readAt(src, offset, 1) IN
         IF r.n = 1 THEN Got(TRUE, Conv(<<r.data[1]>>, 2), <<<<offset, 1>>>>)
         ELSE Got(FALSE, x0, <<<<offset, 1>>>>)
    ELSE Got(FALSE, x0, <<>>)

getUInt32Var_anySize(src, offset, x0, size) ==
    IF size = 4 THEN getUInt32(src, offset, x0)
    ELSE LET t == getUInt16(src, offset, Garbage(2)) IN
         IF t.ok THEN Got(TRUE, Conv(t.x, 4), t.reads)
         ELSE Got(FALSE, x0, t.reads)

getUInt32Var(src, offset, x0, size) ==
    IF size = 4 THEN getUInt32(src, offset, x0)
    ELSE IF size = 2
    THEN LET t == getUInt16(src, offset, Garbage(2)) IN
         IF t.ok THEN Got(TRUE, Conv(t.x, 4), t.reads)
         ELSE Got(FALSE, x0, t.reads)
    ELSE Got(FALSE, x0, <<>>)

getUInt64Var(src, offset, x0, size) ==
    IF size = 8 THEN getUInt64(src, offset, x0)
    ELSE IF size = 4
    THEN LET t == getUInt32(src, offset, Garbage(4)) IN
         IF t.ok THEN Got(TRUE, Conv(t.x, 8), t.reads)
         ELSE Got(FALSE, x0, t.reads)
    ELSE Got(FALSE, x0, <<>>)

FixedOps == {"getUInt16", "getUInt24", "getUInt32", "getUInt64"}
VarOps == {"getUInt16Var", "getUInt32Var", "getUInt64Var"}

\* Bytes of the output type of a reader
OutBytes(op) ==
    CASE op \in {"getUInt16", "getUInt16Var"} -> 2
      [] op \in {"getUInt24", "getUInt32", "getUInt32Var"} -> 4
      [] op \in {"getUInt64", "getUInt64Var"} -> 8

\* Bytes a fixed-width reader asks for
FieldBytes(op) ==
    CASE op = "getUInt16" -> 2
      [] op = "getUInt24" -> 3
      [] op = "getUInt32" -> 4
      [] op = "getUInt64" -> 8

Apply(op, src, offset, x0, size) ==
    CASE op = "getUInt16" -> getUInt16(src, offset, x0)
      [] op = "getUInt24" -> getUInt24(src, offset, x0)
      [] op = "getUInt32" -> getUInt32(src, offset, x0)
      [] op = "getUInt64" -> getUInt64(src, offset, x0)
      [] op = "getUInt16Var" -> getUInt16Var(src, offset, x0, size)
      [] op = "getUInt32Var" -> getUInt32Var(src, offset, x0, size)
      [] op = "getUInt64Var" -> getUInt64Var(src, offset, x0, size)

NoRead == [op |-> "none", offset |-> 0, size |-> 0, x0 |-> <<>>,
           ok |-> FALSE, x |-> <<>>, reads |-> <<>>]


\* The host's source grows by one byte.
SrcAppend ==
    /\ rd = NoRead
    /\ ~source.err
    /\ Len(source.bytes) < MaxSrcLen
    /\ \E b \in ByteVals : source' = [source EXCEPT !.bytes = Append(@, b)]
    /\ UNCHANGED rd
    /\ UNCHANGED <<adapterVars, uuidVars>>

\* The host's source starts failing: readAt returns a negative error.
SrcFail ==
    /\ rd = NoRead
    /\ ~source.err
    /\ source' = [source EXCEPT !.err = TRUE]
    /\ UNCHANGED rd
    /\ UNCHANGED <<adapterVars, uuidVars>>

\* A parser calls a fixed-width reader.
ReadFixed ==
    /\ rd = NoRead
    /\ \E op \in FixedOps : \E offset \in 0..MaxOffset :
       \E x0 \in {Zero(OutBytes(op)), Garbage(OutBytes(op))} :
          LET g == Apply(op, source, offset, x0, 0) IN
          rd' = [op |-> op, offset |-> offset, size |-> FieldBytes(op), x0 |-> x0,
                 ok |-> g.ok, x |-> g.x, reads |-> g.reads]
    /\ UNCHANGED source
    /\ UNCHANGED <<adapterVars, uuidVars>>

\* A parser calls a variable-width reader.
ReadVar ==
    /\ rd = NoRead
    /\ \E op \in VarOps : \E offset \in 0..MaxOffset : \E size \in 0..MaxSize :
       \E x0 \in {Zero(OutBytes(op)), Garbage(OutBytes(op))} :
          LET g == Apply(op, source, offset, x0, size) IN
          rd' = [op |-> op, offset |-> offset, size |-> size, x0 |-> x0,
                 ok |-> g.ok, x |-> g.x, reads |-> g.reads]
    /\ UNCHANGED source
    /\ UNCHANGED <<adapterVars, uuidVars>>

\* The parser has consumed the result.
ReadDone ==
    /\ rd # NoRead
    /\ rd' = NoRead
    /\ UNCHANGED source
    /\ UNCHANGED <<adapterVars, uuidVars>>

ReaderNext ==
    \/ SrcAppend
    \/ SrcFail
    \/ ReadFixed
    \/ ReadVar
    \/ ReadDone

----------------------------------------------------------------------------
\* constUUID: characters are their ASCII codes

MaxEdits == 1

\* "7d613858-5837-4a38-84c5-332d1cddee27"
ExampleLiteral ==
    <<55, 100, 54, 49, 51, 56, 53, 56, 45, 53, 56, 51,
      55, 45, 52, 97, 51, 56, 45, 56, 52, 99, 53, 45,
      51, 51, 50, 100, 49, 99, 100, 100, 101, 101, 50, 55>>

\* "7D613858-5837-4A38-84C5-332D1CDDEE27"
ExampleUpper ==
    <<55, 68, 54, 49, 51, 56, 53, 56, 45, 53, 56, 51,
      55, 45, 52, 65, 51, 56, 45, 56, 52, 67, 53, 45,
      51, 51, 50, 68, 49, 67, 68, 68, 69, 69, 50, 55>>

\* {0x7d, 0x61, 0x38, 0x58, 0x58, 0x37, 0x4a, 0x38,
\*  0x84, 0xc5, 0x33, 0x2d, 0x1c, 0xdd, 0xee, 0x27}
ExampleBytes ==
    <<125, 97, 56, 88, 88, 55, 74, 56, 132, 197, 51, 45, 28, 221, 238, 39>>

\* '-', '/', '0', '9', ':', '@', 'A', 'F', 'G', '`', 'a', 'f', 'g'
EditChars == {45, 47, 48, 57, 58, 64, 65, 70, 71, 96, 97, 102, 103}

\* The array a string literal is stored in: its characters and the NUL
Stored(t) == Append(t, 0)

\* invalid_uuid_string() is declared but never defined and is not constexpr:
\* reaching a call to it makes the constant evaluation, and so the build, fail
Invalid == -1

\* s is the stored array, n the zero-based index
digitAt_noLetterOffset(s, n) ==
    LET c == s[n + 1] IN
    IF c >= 48 /\ c <= 57 THEN c - 48
    ELSE IF c >= 97 /\ c <= 102 THEN c - 97
    ELSE IF c >= 65 /\ c <= 70 THEN c - 65 + 10
    ELSE Invalid

digitAt(s, n) ==
    LET c == s[n + 1] IN
    IF c >= 48 /\ c <= 57 THEN c - 48
    ELSE IF c >= 97 /\ c <= 102 THEN c - 97 + 10
    ELSE IF c >= 65 /\ c <= 70 THEN c - 65 + 10
    ELSE Invalid

hexByteAt(s, n) ==
    IF digitAt(s, n) = Invalid \/ digitAt(s, n + 1) = Invalid THEN Invalid
    ELSE (digitAt(s, n) * 16 + digitAt(s, n + 1)) % 256

assertIsDash_anyChar(c) == TRUE

\* TRUE, or FALSE when invalid_uuid_string("Wrong format") is reached
assertIsDash(c) == c = 45

\* Index of the first digit of each of the 16 bytes
ByteIndex == <<0, 2, 4, 6, 9, 11, 14, 16, 19, 21, 24, 26, 28, 30, 32, 34>>

BuildFailure(diag) == [ok |-> FALSE, bytes |-> <<>>, diag |-> diag]

constUUID(s) ==
    IF Len(s) # 37 THEN BuildFailure("uuid: wrong length")
    ELSE IF ~(/\ assertIsDash(s[8 + 1])
              /\ assertIsDash(s[13 + 1])
              /\ assertIsDash(s[18 + 1])
              /\ assertIsDash(s[23 + 1]))
    THEN BuildFailure("Wrong format")
    ELSE LET b == [k \in 1..16 |-> hexByteAt(s, ByteIndex[k])] IN
         IF \E k \in 1..16 : b[k] = Invalid THEN BuildFailure("uuid: bad digits")
         ELSE [ok |-> TRUE, bytes |-> b, diag |-> ""]

NotBuilt == [ok |-> FALSE, bytes |-> <<>>, diag |-> "not built"]


\* The author changes one character of the literal.
SetChar ==
    /\ uuid = NotBuilt
    /\ edits < MaxEdits
    /\ \E i \in 1..Len(str) : \E c \in EditChars :
          /\ str[i] # c
          /\ str' = [str EXCEPT ![i] = c]
    /\ edits' = edits + 1
    /\ UNCHANGED uuid
    /\ UNCHANGED <<adapterVars, readerVars>>

\* The author drops the last character of the literal.
DropLast ==
    /\ uuid = NotBuilt
    /\ edits < MaxEdits
    /\ Len(str) > 0
    /\ str' = SubSeq(str, 1, Len(str) - 1)
    /\ edits' = edits + 1
    /\ UNCHANGED uuid
    /\ UNCHANGED <<adapterVars, readerVars>>

\* The author adds a character at the end of the literal.
AppendChar ==
    /\ uuid = NotBuilt
    /\ edits < MaxEdits
    /\ \E c \in EditChars : str' = Append(str, c)
    /\ edits' = edits + 1
    /\ UNCHANGED uuid
    /\ UNCHANGED <<adapterVars, readerVars>>

\* The build evaluates UUID(str).
Build ==
    /\ uuid = NotBuilt
    /\ uuid' = constUUID(Stored(str))
    /\ UNCHANGED <<str, edits>>
    /\ UNCHANGED <<adapterVars, readerVars>>

UUIDNext ==
    \/ SetChar
    \/ DropLast
    \/ AppendChar
    \/ Build

----------------------------------------------------------------------------
\* Specifications

\* Nothing wrapped, an empty source, the documented literal not yet built
AdapterInit ==
    /\ extractor = NoExtractor
    /\ implState = "none"
    /\ dtorCount = 0
    /\ wrapper = NoWrapper
    /\ wrapperAlloc = "none"
    /\ freeCalls = 0
    /\ lastCall = NoCall
    /\ crashed = FALSE
    /\ source = [bytes |-> <<>>, err |-> FALSE]
    /\ rd = NoRead
    /\ str = ExampleLiteral
    /\ edits = 0
    /\ uuid = NotBuilt

ReaderInit ==
    /\ extractor = NoExtractor
    /\ implState = "none"
    /\ dtorCount = 0
    /\ wrapper = NoWrapper
    /\ wrapperAlloc = "none"
    /\ freeCalls = 0
    /\ lastCall = NoCall
    /\ crashed = FALSE
    /\ source = [bytes |-> <<>>, err |-> FALSE]
    /\ rd = NoRead
    /\ str = ExampleLiteral
    /\ edits = 0
    /\ uuid = NotBuilt

UUIDInit ==
    /\ extractor = NoExtractor
    /\ implState = "none"
    /\ dtorCount = 0
    /\ wrapper = NoWrapper
    /\ wrapperAlloc = "none"
    /\ freeCalls = 0
    /\ lastCall = NoCall
    /\ crashed = FALSE
    /\ source = [bytes |-> <<>>, err |-> FALSE]
    /\ rd = NoRead
    /\ str \in {ExampleLiteral, ExampleUpper}
    /\ edits = 0
    /\ uuid = NotBuilt

SpecAdapter == AdapterInit /\ [][AdapterNext]_vars
SpecReader == ReaderInit /\ [][ReaderNext]_vars
SpecUUID == UUIDInit /\ [][UUIDNext]_vars

----------------------------------------------------------------------------
\* Properties of the adapter (checked under SpecAdapter)

\* C1: a call through any capability slot of the wrapped struct returns just
\* what the corresponding method of the wrapped object returns when called
\* directly with the same arguments in the same object state: the same
\* return value (status codes and defaults included), the same data written
\* through the metadata reference, and the same object state afterwards.
C1_TrampolineEquivalence ==
    (lastCall.slot # "none" /\ lastCall.defined) =>
        LET direct == Method(lastCall.slot, lastCall.before, lastCall.args) IN
        /\ lastCall.ret = direct.ret
        /\ lastCall.meta = direct.meta
        /\ extractor = direct.obj

\* The default setMediaCas result has come back through the slot.
C1_Witness ==
    /\ lastCall.slot = "setMediaCas"
    /\ lastCall.defined
    /\ lastCall.before.cls = "Minimal"
    /\ lastCall.ret = "INVALID_OPERATION"

\* C2 as stated: over every sequence of host calls the destructor has run at
\* most once, not at all before free is invoked and once after it.
C2_Original ==
    /\ dtorCount <= 1
    /\ freeCalls = 0 => dtorCount = 0
    /\ freeCalls >= 1 => dtorCount = 1

\* C2 amended: as long as the host has invoked free at most once, the
\* destructor has run exactly as often as free was invoked (0 before, 1
\* after), and no other slot ever runs it.
C2_ExactlyOncePerFree ==
    /\ freeCalls = 0 => dtorCount = 0
    /\ freeCalls = 1 => dtorCount = 1
    /\ dtorCount <= freeCalls

\* free has been invoked once, after other slots were used.
C2_Witness ==
    /\ freeCalls = 1
    /\ dtorCount = 1
    /\ lastCall.slot = "getTrack"

\* C8 as stated: once free has been invoked, the wrapped object and the
\* struct allocated by wrap have both been released.
C8_Original ==
    freeCalls >= 1 => (implState = "deleted" /\ wrapperAlloc = "freed")

\* C8 amended: once free has been invoked, the wrapped object has been
\* released and the struct allocated by wrap is still allocated.
C8_FreeLeavesStruct ==
    freeCalls >= 1 => (implState = "deleted" /\ wrapperAlloc = "live")

\* free has run and the struct is still there.
C8_Witness ==
    /\ freeCalls = 1
    /\ implState = "deleted"
    /\ wrapperAlloc = "live"
    /\ wrapper.data = ExtractorPtr

----------------------------------------------------------------------------
\* Properties of DataSourceHelper (checked under SpecReader)

\* The bytes of the source at [offset, offset + n), when all are there
FullAt(offset, n) == ~source.err /\ offset + n <= Len(source.bytes)
BytesAt(offset, n) == SubSeq(source.bytes, offset + 1, offset + n)

\* C3: when the source delivers all N/8 bytes, getUIntN returns true and
\* the output is the big-endian value of those bytes, most significant
\* first; for N = 24 the top byte of the 32-bit output is zero.
C3_BigEndian ==
    (rd.op \in FixedOps /\ FullAt(rd.offset, FieldBytes(rd.op))) =>
        LET b == BytesAt(rd.offset, FieldBytes(rd.op)) IN
        /\ rd.ok
        /\ Len(rd.x) = OutBytes(rd.op)
        /\ rd.x = Zero(OutBytes(rd.op) - FieldBytes(rd.op)) \o b
        /\ rd.op = "getUInt16" => Val(rd.x) = b[1] * 256 + b[2]
        /\ rd.op = "getUInt24" =>
              /\ rd.x[1] = 0
              /\ Val(SubSeq(rd.x, 2, 4)) = b[1] * 65536 + b[2] * 256 + b[3]

\* A 64-bit read of eight bytes that are not a palindrome has succeeded.
C3_Witness ==
    /\ rd.op = "getUInt64"
    /\ rd.ok
    /\ rd.offset = 0
    /\ rd.x[1] # rd.x[8]
    /\ rd.x[4] # rd.x[5]

\* C4: when the source does not deliver all N/8 bytes (short read, nothing
\* at or past the end, negative error), getUIntN returns false and the
\* output is 0 whatever it held before.
C4_ShortReadZeroes ==
    (rd.op \in FixedOps /\ ~FullAt(rd.offset, FieldBytes(rd.op))) =>
        /\ ~rd.ok
        /\ rd.x = Zero(OutBytes(rd.op))

\* A 16-bit read of a source holding one byte at the offset has failed with
\* a non-zero previous output.
C4_Witness ==
    /\ rd.op = "getUInt16"
    /\ ~rd.ok
    /\ ~source.err
    /\ Len(source.bytes) = rd.offset + 1
    /\ rd.x0 = Garbage(2)
    /\ rd.x = Zero(2)

\* C5: whenever a variable-width reader returns false, the output is 0.
C5_VarFailureZeroes ==
    (rd.op \in VarOps /\ ~rd.ok) => rd.x = Zero(OutBytes(rd.op))

\* Accepted sizes of the variable-width readers: half and full width
Accepted(op) ==
    CASE op = "getUInt16Var" -> {1, 2}
      [] op = "getUInt32Var" -> {2, 4}
      [] op = "getUInt64Var" -> {4, 8}

\* C6: a variable-width reader given a size other than the half or full
\* width of its output returns false without any readAt call; given an
\* accepted size it issues one readAt of that size at the offset, and on
\* success the field is stored zero-extended to the output width.
C6_SizesAndZeroExtension ==
    rd.op \in VarOps =>
        /\ rd.size \notin Accepted(rd.op) => (~rd.ok /\ rd.reads = <<>>)
        /\ rd.size \in Accepted(rd.op) =>
              /\ rd.reads = <<<<rd.offset, rd.size>>>>
              /\ rd.ok = FullAt(rd.offset, rd.size)
              /\ rd.ok => rd.x = Zero(OutBytes(rd.op) - rd.size)
                                     \o BytesAt(rd.offset, rd.size)

\* getUInt32Var was given size 3 on a source that holds enough bytes.
C6_Witness ==
    /\ rd.op = "getUInt32Var"
    /\ rd.size = 3
    /\ FullAt(rd.offset, 4)
    /\ ~rd.ok

\* C7: getUInt32Var with size 2 returns the boolean of getUInt16 and leaves
\* the output equal to the zero-extension of getUInt16's output; with size 4
\* it returns the boolean and the output of getUInt32.
C7_VarEqualsFixed ==
    rd.op = "getUInt32Var" =>
        /\ rd.size = 2 =>
              LET t == getUInt16(source, rd.offset, Garbage(2)) IN
              rd.ok = t.ok /\ rd.x = Conv(t.x, 4)
        /\ rd.size = 4 =>
              LET t == getUInt32(source, rd.offset, rd.x0) IN
              rd.ok = t.ok /\ rd.x = t.x

----------------------------------------------------------------------------
\* Properties of constUUID (checked under SpecUUID)

HexDigits == (48..57) \cup (97..102) \cup (65..70)

\* value of a hex digit, either case
HexValue(c) ==
    CASE c \in 48..57 -> c - 48
      [] c \in 97..102 -> c - 87
      [] c \in 65..70 -> c - 55

DashAt == {9, 14, 19, 24}

WellFormed(t) ==
    /\ Len(t) = 36
    /\ \A i \in 1..36 : IF i \in DashAt THEN t[i] = 45 ELSE t[i] \in HexDigits

IsDigit(c) == c # 45
HexPairs(t) == SelectSeq(t, IsDigit)

\* C9: for a well-formed literal the build yields 16 bytes, byte k being
\* 16 * first digit + second digit of the k-th pair of hex digits read left
\* to right with the dashes skipped, in either case of the letters; the
\* documented example yields the documented bytes.
C9_Decodes ==
    (uuid # NotBuilt /\ WellFormed(str)) =>
        /\ uuid.ok
        /\ Len(uuid.bytes) = 16
        /\ \A k \in 1..16 :
              uuid.bytes[k] = 16 * HexValue(HexPairs(str)[2 * k - 1])
                              + HexValue(HexPairs(str)[2 * k])
        /\ str \in {ExampleLiteral, ExampleUpper} => uuid.bytes = ExampleBytes

\* The upper-case spelling of the example has been built.
C9_Witness ==
    /\ uuid.ok
    /\ str = ExampleUpper
    /\ uuid.bytes = ExampleBytes

\* C10: a literal that breaks a rule (stored length other than 37, no dash
\* at index 8, 13, 18 or 23, a non-hex character elsewhere) never builds.
C10_Rejects ==
    (uuid # NotBuilt /\ ~WellFormed(str)) => ~uuid.ok

\* A literal with a hex digit in place of the first dash was rejected.
C10_Witness ==
    /\ uuid # NotBuilt
    /\ ~uuid.ok
    /\ Len(str) = 36
    /\ str[9] \in HexDigits
    /\ uuid.diag = "Wrong format"

====
